---------------------------- MODULE Spec2Model ----------------------------
(* Model of exam/forms.py: ExamForm.clean, the cross-field validation of   *)
(* an exam form.  A datetime is an instant (utc, in ticks) carried with    *)
(* the UTC offset of its time zone; its calendar year is the year of the   *)
(* local reading utc + off.  cleaned_data is a dict: a field that failed    *)
(* its own field validation, or was left empty, has no key in it.           *)
EXTENDS Integers, FiniteSets, Sequences, TLC

(* ---- bounds of the model ---- *)
TicksPerYear == 2
MaxYear == 13
MaxOffset == 1
MaxStudents == 1

(* ---- program constant: now.year + 10 ---- *)
YearsAhead == 10

VARIABLES cleaned_data, students, clock, local_off, pc, errors, returned, queries

vars == <<cleaned_data, students, clock, local_off, pc, errors, returned, queries>>

(* ---- Python values ---- *)
None == [type |-> "NoneType"]
Str(s) == [type |-> "str", v |-> s]
DateTime(t, o) == [type |-> "datetime", utc |-> t, off |-> o]
QuerySet(ids) == [type |-> "QuerySet", ids |-> ids]

Ticks == 0 .. ((MaxYear + 1) * TicksPerYear - 1)
Offsets == 0 .. MaxOffset
UserIds == 1 .. MaxStudents
(* the clock readings tried: the first and the last tick of year 1 *)
ClockTicks == {TicksPerYear, 2 * TicksPerYear - 1}

(* dict.get(key): the value, or None when the key is absent *)
Get(d, k) == IF k \in DOMAIN d THEN d[k] ELSE None

(* mutant: None passes for a datetime *)
IsDatetimeOrNone(v) == v.type \in {"datetime", "NoneType"}

(* isinstance(v, datetime) *)
IsDatetime(v) == v.type = "datetime"

(* timezone.is_aware(v) : every datetime a form field yields is aware *)
IsAware(v) == v.type = "datetime"

(* truth value of a Python object: None and an empty queryset are false,  *)
(* a datetime is always true                                               *)
Truthy(v) ==
    CASE v.type = "NoneType" -> FALSE
      [] v.type = "QuerySet" -> v.ids # {}
      [] v.type = "str" -> v.v # ""
      [] OTHER -> TRUE

(* len(v) of a queryset *)
Len0(v) == IF v.type = "QuerySet" THEN Cardinality(v.ids) ELSE 0

(* timezone.localtime(v): the same instant read in the local zone *)
LocalTime(v, tz) == DateTime(v.utc, tz)

(* mutant: the year is read in UTC, not in the datetime's own zone *)
YearUtc(v) == v.utc \div TicksPerYear

(* datetime.year: the calendar year of the local reading *)
Year(v) == (v.utc + v.off) \div TicksPerYear

(* mutants: the comparisons off by one tick *)
BeforeOffByOne(a, b) == a.utc + 1 < b.utc
NotBeforeStrict(a, b) == a.utc > b.utc

(* aware datetimes compare by instant *)
Before(a, b) == a.utc < b.utc
NotBefore(a, b) == a.utc >= b.utc

(* timezone.localtime(timezone.now()) *)
Now(c, tz) == LocalTime(DateTime(c, 0), tz)

(* mutant: the count is not filtered by user_type, and counts the teacher *)
CountAllUsers(reg) == Cardinality(reg) + 1

(* User.objects.filter(user_type='student').count() *)
CountStudents(reg) == Cardinality(reg)

(* ---- the messages of the ValidationErrors ---- *)
MsgStartType == "Start date and time is not a valid date/time."
MsgEndType == "End date and time is not a valid date/time."
MsgNoStudentsAll == "Cannot create exam for \"All Students\" because there are no students registered in the system. Please register students first or change access type to \"Specific Students\"."
MsgNoParticipants == "This exam has no participants. Please select at least one student or change access type to \"All Students\"."
MsgNoStudents == "Cannot create exam because there are no students in the system. Please register students first."
MsgOrder == "Start date and time must be before end date and time."
MsgStartYear == "Start date must be between {now.year} and {max_year}."
MsgEndYear == "End date must be between {now.year} and {max_year}."
MsgPast == "Start date and time must not be in the past."
MsgRequired == "Both start and end date/time are required."

ValidationError(m, args) == [message |-> m, params |-> args]

(* ---- one run of clean(): the locals, the errors raised, the queries ---- *)
(* mutant: the error is added to the form and the checks go on *)
AddError(r, e) == [r EXCEPT !.errors = Append(@, e)]

(* raise: the error is recorded and nothing after it runs *)
Raise(r, e) == [r EXCEPT !.raised = TRUE, !.errors = Append(@, e)]

Enter(cd, reg, c, tz) ==
    [ access_type |-> Get(cd, "access_type"),
      allowed_students |-> Get(cd, "allowed_students"),
      start_date_time |-> Get(cd, "start_date_time"),
      end_date_time |-> Get(cd, "end_date_time"),
      now |-> Now(c, tz),
      max_year |-> Year(Now(c, tz)) + YearsAhead,
      tz |-> tz,
      registry |-> reg,
      raised |-> FALSE,
      errors |-> <<>>,
      queries |-> 0 ]

(* lines 62-66 *)
ToLocal(r) ==
    LET s == IF Truthy(r.start_date_time) /\ IsAware(r.start_date_time)
             THEN LocalTime(r.start_date_time, r.tz) ELSE r.start_date_time
        e == IF Truthy(r.end_date_time) /\ IsAware(r.end_date_time)
             THEN LocalTime(r.end_date_time, r.tz) ELSE r.end_date_time
    IN [r EXCEPT !.start_date_time = s, !.end_date_time = e]

(* lines 68-73 *)
TypeCheck(r) ==
    IF r.raised THEN r
    ELSE IF ~IsDatetime(r.start_date_time)
         THEN Raise(r, ValidationError(MsgStartType, <<>>))
    ELSE IF ~IsDatetime(r.end_date_time)
         THEN Raise(r, ValidationError(MsgEndType, <<>>))
    ELSE r

(* mutant: the first availability check is left out *)
StudentsAvailableSkipped(r) == r

(* lines 75-82 *)
StudentsAvailable(r) ==
    IF r.raised THEN r
    ELSE IF r.access_type = Str("all_students")
         THEN LET q == [r EXCEPT !.queries = @ + 1]
              IN IF CountStudents(r.registry) = 0
                 THEN Raise(q, ValidationError(MsgNoStudentsAll, <<>>))
                 ELSE q
    ELSE r

(* mutant: only the all_students branch is checked *)
HasParticipantsAllOnly(r) ==
    IF r.raised THEN r
    ELSE IF r.access_type = Str("all_students")
         THEN LET q == [r EXCEPT !.queries = @ + 1]
              IN IF CountStudents(r.registry) = 0
                 THEN Raise(q, ValidationError(MsgNoStudents, <<>>))
                 ELSE q
    ELSE r

(* lines 84-95 *)
HasParticipants(r) ==
    IF r.raised THEN r
    ELSE IF r.access_type = Str("specific_students")
         THEN IF ~Truthy(r.allowed_students) \/ Len0(r.allowed_students) = 0
              THEN Raise(r, ValidationError(MsgNoParticipants, <<>>))
              ELSE r
    ELSE IF r.access_type = Str("all_students")
         THEN LET q == [r EXCEPT !.queries = @ + 1]
              IN IF CountStudents(r.registry) = 0
                 THEN Raise(q, ValidationError(MsgNoStudents, <<>>))
                 ELSE q
    ELSE r

(* lines 97-118 *)
DateChecks(r) ==
    IF r.raised THEN r
    ELSE IF Truthy(r.start_date_time) /\ Truthy(r.end_date_time)
         THEN IF NotBefore(r.start_date_time, r.end_date_time)
                 THEN Raise(r, ValidationError(MsgOrder, <<>>))
              ELSE IF Year(r.start_date_time) < Year(r.now)
                      \/ Year(r.start_date_time) > r.max_year
                 THEN Raise(r, ValidationError(MsgStartYear, <<Year(r.now), r.max_year>>))
              ELSE IF Year(r.end_date_time) < Year(r.now)
                      \/ Year(r.end_date_time) > r.max_year
                 THEN Raise(r, ValidationError(MsgEndYear, <<Year(r.now), r.max_year>>))
              ELSE IF Before(r.start_date_time, r.now)
                 THEN Raise(r, ValidationError(MsgPast, <<>>))
              ELSE r
    ELSE Raise(r, ValidationError(MsgRequired, <<>>))

(* the whole body of clean() *)
RunClean(cd, reg, c, tz) ==
    DateChecks(HasParticipants(StudentsAvailable(TypeCheck(ToLocal(Enter(cd, reg, c, tz))))))

(* mutant: the localized datetimes are written back into cleaned_data *)
ReturnedLocalized(cd, r) ==
    [k \in DOMAIN cd |-> IF k \in {"start_date_time", "end_date_time"} THEN r[k] ELSE cd[k]]

(* line 120: what clean() hands back when nothing was raised *)
Returned(cd, r) == cd

(* ---- the submitted forms ---- *)
Field(k, vals) == {[x \in {} |-> None]} \cup {k :> v : v \in vals}

AccessTypes == {Str("all_students"), Str("specific_students")}

(* the forms that can reach clean(): only registered students can be    *)
(* selected (line 41), and the datetime fields yield aware datetimes in *)
(* the request's current time zone, of offset o                         *)
FormData(reg, o) ==
    { a @@ s @@ st @@ en :
        a \in Field("access_type", AccessTypes),
        s \in Field("allowed_students", {QuerySet(ids) : ids \in SUBSET reg}),
        st \in Field("start_date_time", {DateTime(t, o) : t \in Ticks}),
        en \in Field("end_date_time", {DateTime(t, o) : t \in Ticks}) }

Init ==
    /\ students \in SUBSET UserIds
    /\ \E o \in Offsets : cleaned_data \in FormData(students, o)
    /\ clock \in ClockTicks
    /\ local_off \in Offsets
    /\ pc = "bound"
    /\ errors = <<>>
    /\ returned = None
    /\ queries = 0

(* form.is_valid() calling clean() *)
Clean ==
    /\ pc = "bound"
    /\ LET r == RunClean(cleaned_data, students, clock, local_off)
       IN /\ errors' = r.errors
          /\ queries' = r.queries
          /\ returned' = IF r.raised THEN None ELSE [type |-> "dict", d |-> Returned(cleaned_data, r)]
          /\ pc' = IF r.raised THEN "rejected" ELSE "accepted"
    /\ UNCHANGED <<cleaned_data, students, clock, local_off>>

Next == Clean

Spec == Init /\ [][Next]_vars

(* ---- the vocabulary of the properties: the submitted candidate ---- *)
Start == Get(cleaned_data, "start_date_time")
End == Get(cleaned_data, "end_date_time")
AccessType == Get(cleaned_data, "access_type")
Allowed == Get(cleaned_data, "allowed_students")

Finished == pc # "bound"
Accepted == pc = "accepted"
Rejected == pc = "rejected"
Messages == {errors[i].message : i \in DOMAIN errors}
MessageList == [i \in DOMAIN errors |-> errors[i].message]

(* the error kinds, by message *)
InvalidType == {MsgStartType, MsgEndType}
NoParticipants == {MsgNoStudentsAll, MsgNoParticipants, MsgNoStudents}
InvalidRange == {MsgOrder}
OutOfBounds == {MsgStartYear, MsgEndYear}
InPast == {MsgPast}
Required == {MsgRequired}

WellFormed == Start.type = "datetime" /\ End.type = "datetime"
AllStudents == AccessType = Str("all_students")
SpecificStudents == AccessType = Str("specific_students")
NoneSelected == Allowed = None \/ Allowed = QuerySet({})
NoStudents == Cardinality(students) = 0

(* the calendar year of an instant in the local zone *)
LocalYear(t) == (t + local_off) \div TicksPerYear
YearInBounds(t) == LocalYear(clock) <= LocalYear(t) /\ LocalYear(t) <= LocalYear(clock) + YearsAhead

(* the rules a candidate with well-formed instants can break *)
FailsParticipants == (SpecificStudents /\ NoneSelected) \/ (AllStudents /\ NoStudents)
FailsOrder == Start.utc >= End.utc
FailsStartYear == ~YearInBounds(Start.utc)
FailsEndYear == ~YearInBounds(End.utc)
FailsPast == Start.utc < clock

(* C1: an accepted candidate satisfies the five validity invariants at the *)
(* validation-time now: start < end, start >= now, both years within      *)
(* [now.year, now.year + 10], SPECIFIC_STUDENTS has a non-empty selection, *)
(* ALL_STUDENTS has at least one registered student.                       *)
C1_AcceptedIsValid ==
    Accepted =>
        /\ WellFormed
        /\ Start.utc < End.utc
        /\ Start.utc >= clock
        /\ YearInBounds(Start.utc)
        /\ YearInBounds(End.utc)
        /\ (SpecificStudents => Allowed.type = "QuerySet" /\ Allowed.ids # {})
        /\ (AllStudents => Cardinality(students) > 0)

C1_Witness == Accepted /\ AllStudents /\ Start.off # local_off

(* C2 as stated: with well-formed instants every failing check has its   *)
(* entry in the error list.                                               *)
C2_EveryFailingCheckReported ==
    (Finished /\ WellFormed) =>
        /\ (FailsParticipants => Messages \cap NoParticipants # {})
        /\ (FailsOrder => Messages \cap InvalidRange # {})
        /\ (FailsStartYear => MsgStartYear \in Messages)
        /\ (FailsEndYear => MsgEndYear \in Messages)
        /\ (FailsPast => Messages \cap InPast # {})

(* the message of the first check that fails, in the order the checks are *)
(* evaluated: participants, ordering, start year, end year, past date      *)
FirstFailure ==
    IF AllStudents /\ NoStudents THEN <<MsgNoStudentsAll>>
    ELSE IF SpecificStudents /\ NoneSelected THEN <<MsgNoParticipants>>
    ELSE IF FailsOrder THEN <<MsgOrder>>
    ELSE IF FailsStartYear THEN <<MsgStartYear>>
    ELSE IF FailsEndYear THEN <<MsgEndYear>>
    ELSE IF FailsPast THEN <<MsgPast>>
    ELSE <<>>

(* C2 amended: with well-formed instants validation stops at the first    *)
(* failing check; the error list holds exactly that check's error and     *)
(* nothing for the checks after it, and is empty when no check fails.     *)
C2_FirstFailingCheckOnly ==
    (Finished /\ WellFormed) => MessageList = FirstFailure

C2_Witness ==
    /\ Rejected /\ WellFormed
    /\ SpecificStudents /\ NoneSelected /\ FailsOrder /\ FailsPast
    /\ Len(errors) = 1

(* C3 as stated: SPECIFIC_STUDENTS with nothing selected is rejected with *)
(* NoParticipants whatever the other fields are.                          *)
C3_NoSelectionAlwaysReported ==
    (Finished /\ SpecificStudents /\ NoneSelected) =>
        Rejected /\ Messages \cap NoParticipants # {}

(* C3 amended: SPECIFIC_STUDENTS with nothing selected and well-formed    *)
(* start and end is rejected with NoParticipants, whether or not the      *)
(* instants are mis-ordered, out of year bounds or in the past.           *)
C3_NoSelectionReported ==
    (Finished /\ SpecificStudents /\ NoneSelected /\ WellFormed) =>
        Rejected /\ MessageList = <<MsgNoParticipants>>

C3_Witness ==
    /\ Rejected /\ SpecificStudents /\ NoneSelected /\ WellFormed
    /\ FailsOrder /\ FailsStartYear
    /\ MsgNoParticipants \in Messages

(* C4 as stated: start >= end is rejected with InvalidRange for every     *)
(* access type, selection and student count.                              *)
C4_MisorderedAlwaysReported ==
    (Finished /\ WellFormed /\ FailsOrder) =>
        Rejected /\ Messages \cap InvalidRange # {}

(* C4 amended: start >= end is rejected; the error is InvalidRange when   *)
(* the participant checks pass, and the NoParticipants error alone when   *)
(* they fail.                                                             *)
C4_MisorderedReported ==
    (Finished /\ WellFormed /\ FailsOrder) =>
        /\ Rejected
        /\ IF FailsParticipants THEN Messages \subseteq NoParticipants /\ Len(errors) = 1
           ELSE MessageList = <<MsgOrder>>

C4_Witness ==
    /\ Rejected /\ WellFormed /\ Start.utc = End.utc /\ ~FailsParticipants
    /\ MsgOrder \in Messages

(* C5 as stated: start < now is rejected with InPast, also when start is  *)
(* in an earlier year than now or start >= end.                           *)
C5_PastAlwaysReported ==
    (Finished /\ WellFormed /\ FailsPast) =>
        Rejected /\ Messages \cap InPast # {}

(* C5 amended: start < now is rejected; the error is InPast when the      *)
(* participant, ordering and year-bound checks pass, and otherwise the    *)
(* error of the first of those checks that fails, without InPast.         *)
C5_PastReported ==
    (Finished /\ WellFormed /\ FailsPast) =>
        /\ Rejected
        /\ Len(errors) = 1
        /\ (MsgPast \in Messages) <=>
              ~(FailsParticipants \/ FailsOrder \/ FailsStartYear \/ FailsEndYear)

C5_Witness ==
    /\ Rejected /\ WellFormed /\ Start.utc + 1 = clock
    /\ MsgPast \in Messages

(* C6 as stated: a start year beyond now.year + 10 is rejected with       *)
(* OutOfBounds for the start date, also when end <= start or the          *)
(* participant checks fail.                                               *)
C6_FarStartAlwaysReported ==
    (Finished /\ WellFormed /\ LocalYear(Start.utc) > LocalYear(clock) + YearsAhead) =>
        Rejected /\ MsgStartYear \in Messages

(* C6 amended: a start year beyond now.year + 10 is rejected; the error   *)
(* is OutOfBounds for the start date when the participant and ordering    *)
(* checks pass, and otherwise the error of the first of those two that    *)
(* fails, without OutOfBounds.                                            *)
C6_FarStartReported ==
    (Finished /\ WellFormed /\ LocalYear(Start.utc) > LocalYear(clock) + YearsAhead) =>
        /\ Rejected
        /\ Len(errors) = 1
        /\ (MsgStartYear \in Messages) <=> ~(FailsParticipants \/ FailsOrder)
        /\ MsgStartYear \in Messages =>
              errors[1].params = <<LocalYear(clock), LocalYear(clock) + YearsAhead>>

C6_Witness ==
    /\ Rejected /\ WellFormed
    /\ LocalYear(Start.utc) = LocalYear(clock) + YearsAhead + 1
    /\ Start.utc \div TicksPerYear = LocalYear(clock) + YearsAhead
    /\ MsgStartYear \in Messages

(* C7 as stated: ALL_STUDENTS with no registered student is rejected with *)
(* the NoParticipants message that mentions "All Students", and the       *)
(* second no-students message of the re-check is produced as well.        *)
C7_BothNoStudentsMessages ==
    (Finished /\ AllStudents /\ NoStudents) =>
        /\ Rejected
        /\ MsgNoStudentsAll \in Messages
        /\ MsgNoStudents \in Messages

(* C7 amended: ALL_STUDENTS with no registered student and well-formed    *)
(* start and end is rejected with exactly one error, the NoParticipants   *)
(* message that mentions "All Students"; the registry is counted once and *)
(* the second no-students message of the re-check is never produced.      *)
C7_FirstNoStudentsMessageOnly ==
    /\ MsgNoStudents \notin Messages
    /\ (Finished /\ AllStudents /\ NoStudents /\ WellFormed) =>
          /\ Rejected
          /\ MessageList = <<MsgNoStudentsAll>>
          /\ queries = 1

C7_Witness ==
    /\ Rejected /\ AllStudents /\ NoStudents /\ WellFormed
    /\ MsgNoStudentsAll \in Messages

(* C8: if start or end is not a well-formed instant, validation rejects   *)
(* with exactly one InvalidType error and nothing else, and no later      *)
(* check runs: the student registry is not counted.                       *)
C8_TypeErrorShortCircuits ==
    (Finished /\ ~WellFormed) =>
        /\ Rejected
        /\ Len(errors) = 1
        /\ errors[1].message \in InvalidType
        /\ errors[1].message = (IF Start.type # "datetime" THEN MsgStartType ELSE MsgEndType)
        /\ queries = 0

C8_Witness ==
    /\ Rejected /\ Start.type = "datetime" /\ End.type # "datetime"
    /\ AllStudents /\ NoStudents
    /\ Messages = {MsgEndType}

(* C9: a start or end that is missing after normalization is rejected    *)
(* with the Required error.                                               *)
C9_MissingIsRequired ==
    (Finished /\ (Start = None \/ End = None)) =>
        Rejected /\ Messages \cap Required # {}

(* C10: a candidate that breaks no rule (well-formed instants with        *)
(* now <= start < end, both years in bounds, an access policy that yields *)
(* participants) is accepted with no error, and the cleaned data handed   *)
(* back is the candidate unchanged.                                       *)
C10_ValidIsAccepted ==
    ( /\ Finished /\ WellFormed
      /\ clock <= Start.utc /\ Start.utc < End.utc
      /\ YearInBounds(Start.utc) /\ YearInBounds(End.utc)
      /\ \/ SpecificStudents /\ ~NoneSelected
         \/ AllStudents /\ ~NoStudents )
    => /\ Accepted
       /\ errors = <<>>
       /\ returned = [type |-> "dict", d |-> cleaned_data]

C10_Witness ==
    /\ Accepted /\ SpecificStudents /\ ~NoneSelected
    /\ Start.off # local_off
    /\ returned = [type |-> "dict", d |-> cleaned_data]

=============================================================================
